---- MODULE Spec2Model ----
(***************************************************************************)
(* DeepReisz (advreisz/deepreisz/nnreisz.py): the training loop with one   *)
(* checkpoint per epoch, validation-based early stopping, and the          *)
(* prediction policies that read the checkpoints back.                     *)
(*                                                                         *)
(* The learner is an opaque torch module.  It is modelled by its parameter *)
(* state (an integer of Params) and its train/eval flag; its forward pass  *)
(* is the linear function Forward.  An optimizer step may move the         *)
(* parameters to any value of Params.  The validation loss is a function   *)
(* of the parameter state (moment_fn and Xval are fixed during a fit); the *)
(* function is an input of fit and may take the value inf.                 *)
(***************************************************************************)
EXTENDS Integers, Sequences, FiniteSets, TLC

\* ------------------------------------------------------------------ bounds
MaxEpochs == 3
MaxBatches == 1
MaxRounds == 1
MaxBurn == 2

\* --------------------------------------------------------------- constants
\* np.inf, the initial min_eval: larger than every finite loss of the model.
inf == 1000
\* Marker of a Python name that is not bound yet (loop variable `epoch`
\* before the first iteration, attributes set only by fit).
Unbound == -1

\* Parameter states of the learner.
Params == {0, 1, 2}

\* Validation losses as a function of the parameter state: flat (every
\* epoch ties), one strict minimum at k, and diverged (every loss is inf).
Flat == [w \in Params |-> 1]
Bowl(k) == [w \in Params |-> IF w = k THEN 0 ELSE 1]
Diverged == [w \in Params |-> inf]
Landscapes == {Flat, Diverged} \cup {Bowl(k) : k \in Params}
NoLandscape == [w \in Params |-> 0]

\* Checkpoint file names inside a run directory.
EpochFileOneBased(i) == <<"epoch", i + 1>>
EpochFile(i) == <<"epoch", i>>
EarlystopFile == <<"earlystop">>

\* ---------------------------------------------------------- learner object
Learners == [params : Params, training : BOOLEAN]

state_dict(m) == m.params
load_state_dict_skip(m, sd) == m
load_state_dict(m, sd) == [m EXCEPT !.params = sd]
train(m) == [m EXCEPT !.training = TRUE]
eval_skip(m) == m
eval(m) == [m EXCEPT !.training = FALSE]
\* learner(x) for one input row x.
Forward(m, x) == m.params * x

\* torch.save(obj, path): the file at `key` now holds a full copy of obj,
\* replacing what was there; torch.load returns the stored object.
torch_save_alone(files, key, obj) == (key :> obj)
torch_save(files, key, obj) == (key :> obj) @@ files
torch_load(files, key) == files[key]
exists(files, key) == key \in DOMAIN files

\* tempfile.TemporaryDirectory(dir=model_dir): the directory created by this
\* fit, a new one after those that exist.
SameRunDir(dirs) == 1
NewRunDir(dirs) == Len(dirs) + 1

\* The value `epoch` has at the head of `for epoch in range(n)`.
FirstEpochBound(n) == 0
FirstEpoch(n) == IF n > 0 THEN 0 ELSE Unbound

\* Xval is not None (lines 79, 102, 121)
AlwaysValidation(c) == TRUE
HasValidation(c) == c.Xval

\* min_eval > curr_eval (line 107)
ImprovedOrTie(min, curr) == min >= curr
Improved(min, curr) == min > curr
\* time_since_last_improvement > earlystop_rounds (line 114)
PatienceReached(t, rounds) == t >= rounds
PatienceExceeded(t, rounds) == t > rounds

\* ------------------------------------------------------------------- state
VARIABLES
    learner,        \* self.learner
    valLoss,        \* validation loss of each parameter state (moment_fn, Xval)
    model_dir,      \* self.model_dir: index into fs, 0 before the first fit
    n_epochs,       \* self.n_epochs, Unbound before the first completed fit
    fs,             \* run directories: sequence of (file name -> saved learner)
    pc,             \* position of the fit in flight, "idle" when none
    cfg,            \* arguments of the fit in flight (or of the last fit)
    epoch,          \* loop variable of _train
    it,             \* mini-batches done in the current epoch
    min_eval,
    time_since_last_improvement,
    best_learner_state_dict,
    outcome,        \* how the last fit ended: "none", "running", "returned", "raised"
    written,        \* file names written by the current fit, in order
    snap,           \* the learner as it was when each epoch's mini-batches ended
    logged,         \* epoch indices the logger was called with, in order
    evals,          \* validation losses of the current fit, one per validated epoch
    stopped,        \* the epoch loop was left by the break of line 115
    last,           \* outcome of the predict call just made
    wd              \* a call of add_weight_decay: its arguments and its return

vars == <<learner, valLoss, model_dir, n_epochs, fs, pc, cfg, epoch, it,
          min_eval, time_since_last_improvement, best_learner_state_dict,
          outcome, written, snap, logged, evals, stopped, last, wd>>

\* alpha = None, and the tail probabilities tried, as <<numerator, denominator>>.
NoAlpha == <<0, 1>>
Alphas == {<<1, 10>>, <<1, 2>>, <<9, 10>>}
\* Inputs T of predict: sequences of rows.
TInputs == {<<1, 2>>}

\* The return of a predict call: how it ended, its arguments, the directory
\* and files it loaded, and the returned rows as exact rationals.
NoCall == [outcome |-> "none", name |-> "", isint |-> FALSE, index |-> 0,
           burn_in |-> 0, alpha |-> NoAlpha, T |-> <<>>, dir |-> 0,
           loaded |-> <<>>, value |-> <<>>, lower |-> <<>>, upper |-> <<>>,
           inflight |-> FALSE]

\* No call of add_weight_decay made.
NoDecayCall == [called |-> FALSE, net |-> <<>>, l2_value |-> 0, skip_list |-> {},
                groups |-> <<>>]

NoCfg == [n_epochs |-> 0, Xval |-> FALSE, earlystop_rounds |-> 0,
          logger |-> FALSE, nbatches |-> 0]

\* earlystop_rounds is only read when Xval is given.
Configs == {c \in [n_epochs : 0..MaxEpochs, Xval : BOOLEAN,
                   earlystop_rounds : 0..MaxRounds, logger : BOOLEAN,
                   nbatches : 0..MaxBatches] :
               c.Xval \/ c.earlystop_rounds = 0}

Init ==
    /\ learner \in Learners
    /\ valLoss = NoLandscape
    /\ model_dir = 0
    /\ n_epochs = Unbound
    /\ fs = <<>>
    /\ pc = "idle"
    /\ cfg = NoCfg
    /\ epoch = Unbound
    /\ it = 0
    /\ min_eval = inf
    /\ time_since_last_improvement = 0
    /\ best_learner_state_dict = 0
    /\ outcome = "none"
    /\ written = <<>>
    /\ snap = <<>>
    /\ logged = <<>>
    /\ evals = <<>>
    /\ stopped = FALSE
    /\ last = NoCall
    /\ wd = NoDecayCall

\* ------------------------------------------------------------------- fit
\* fit -> _pretrain, then _train up to the head of the epoch loop.
\* A fresh run directory is created and self.model_dir switched to it;
\* without warm_start the parameters are re-initialised (to w0).
\* Spec follows one estimator through its first fit.
FitStart(c, w0, land) ==
    /\ fs' = Append(fs, <<>>)
    /\ model_dir' = NewRunDir(fs)
    /\ learner' = [learner EXCEPT !.params = w0]
    /\ cfg' = c
    /\ valLoss' = land
    /\ min_eval' = inf
    /\ time_since_last_improvement' = 0
    /\ best_learner_state_dict' = IF HasValidation(c) THEN state_dict(learner') ELSE 0
    /\ epoch' = FirstEpoch(c.n_epochs)
    /\ it' = 0
    /\ pc' = IF c.n_epochs > 0 THEN "batch" ELSE "final"
    /\ outcome' = "running"
    /\ written' = <<>>
    /\ snap' = <<>>
    /\ logged' = <<>>
    /\ evals' = <<>>
    /\ stopped' = FALSE
    /\ last' = NoCall
    /\ UNCHANGED wd
    /\ UNCHANGED <<n_epochs>>

Fit ==
    /\ pc = "idle"
    /\ outcome = "none"
    /\ \E c \in Configs, warm_start \in BOOLEAN :
        \E w0 \in (IF warm_start THEN {learner.params} ELSE Params) :
          \E land \in (IF c.Xval THEN Landscapes ELSE {NoLandscape}) :
            FitStart(c, w0, land)

\* One mini-batch: train(), loss, backward, optimizer step, eval().
TrainStep ==
    /\ pc = "batch"
    /\ it < cfg.nbatches
    /\ \E w \in Params : learner' = eval([train(learner) EXCEPT !.params = w])
    /\ it' = it + 1
    /\ last' = NoCall
    /\ UNCHANGED wd
    /\ UNCHANGED <<valLoss, model_dir, n_epochs, fs, pc, cfg, epoch, min_eval,
                   time_since_last_improvement, best_learner_state_dict,
                   outcome, written, snap, logged, evals, stopped>>

\* An exception inside the mini-batch computation: it leaves fit at once,
\* after train() and before eval().
TrainStepRaise ==
    /\ pc = "batch"
    /\ it < cfg.nbatches
    /\ learner' = train(learner)
    /\ pc' = "idle"
    /\ outcome' = "raised"
    /\ last' = NoCall
    /\ UNCHANGED wd
    /\ UNCHANGED <<valLoss, model_dir, n_epochs, fs, cfg, epoch, it, min_eval,
                   time_since_last_improvement, best_learner_state_dict,
                   written, snap, logged, evals, stopped>>

\* The mini-batch loop is exhausted: the learner is saved under the epoch index.
Checkpoint ==
    /\ pc = "batch"
    /\ it = cfg.nbatches
    /\ fs' = [fs EXCEPT ![model_dir] = torch_save(@, EpochFile(epoch), learner)]
    /\ written' = Append(written, EpochFile(epoch))
    /\ snap' = Append(snap, learner)
    /\ pc' = IF HasValidation(cfg) THEN "validate" ELSE "logger"
    /\ last' = NoCall
    /\ UNCHANGED wd
    /\ UNCHANGED <<learner, valLoss, model_dir, n_epochs, cfg, epoch, it, min_eval,
                   time_since_last_improvement, best_learner_state_dict,
                   outcome, logged, evals, stopped>>

\* Validation loss of the current learner and the early-stopping decision.
Validate ==
    /\ pc = "validate"
    /\ LET curr_eval == valLoss[learner.params] IN
       /\ evals' = Append(evals, curr_eval)
       /\ IF Improved(min_eval, curr_eval)
          THEN /\ min_eval' = curr_eval
               /\ time_since_last_improvement' = 0
               /\ best_learner_state_dict' = state_dict(learner)
               /\ pc' = "logger"
               /\ stopped' = stopped
          ELSE /\ time_since_last_improvement' = time_since_last_improvement + 1
               /\ UNCHANGED <<min_eval, best_learner_state_dict>>
               /\ IF PatienceExceeded(time_since_last_improvement', cfg.earlystop_rounds)
                  THEN pc' = "final" /\ stopped' = TRUE
                  ELSE pc' = "logger" /\ stopped' = stopped
    /\ last' = NoCall
    /\ UNCHANGED wd
    /\ UNCHANGED <<learner, valLoss, model_dir, n_epochs, fs, cfg, epoch, it,
                   outcome, written, snap, logged>>

\* An exception inside the validation computation.
ValidateRaise ==
    /\ pc = "validate"
    /\ pc' = "idle"
    /\ outcome' = "raised"
    /\ last' = NoCall
    /\ UNCHANGED wd
    /\ UNCHANGED <<learner, valLoss, model_dir, n_epochs, fs, cfg, epoch, it,
                   min_eval, time_since_last_improvement, best_learner_state_dict,
                   written, snap, logged, evals, stopped>>

\* End of the loop body: the logger call, then the next value of range(n_epochs).
EndOfEpoch ==
    /\ pc = "logger"
    /\ logged' = IF cfg.logger THEN Append(logged, epoch) ELSE logged
    /\ IF epoch + 1 < cfg.n_epochs
       THEN epoch' = epoch + 1 /\ it' = 0 /\ pc' = "batch"
       ELSE pc' = "final" /\ UNCHANGED <<epoch, it>>
    /\ last' = NoCall
    /\ UNCHANGED wd
    /\ UNCHANGED <<learner, valLoss, model_dir, n_epochs, fs, cfg, min_eval,
                   time_since_last_improvement, best_learner_state_dict,
                   outcome, written, snap, evals, stopped>>

\* Lines 120-126: `epoch` is unbound when the loop body never ran.
Finalize ==
    /\ pc = "final"
    /\ pc' = "idle"
    /\ IF epoch = Unbound
       THEN /\ outcome' = "raised"
            /\ UNCHANGED <<learner, n_epochs, fs, written>>
       ELSE /\ outcome' = "returned"
            /\ n_epochs' = epoch + 1
            /\ IF HasValidation(cfg)
               THEN /\ learner' = load_state_dict(learner, best_learner_state_dict)
                    /\ fs' = [fs EXCEPT ![model_dir] =
                                 torch_save(@, EarlystopFile, learner')]
                    /\ written' = Append(written, EarlystopFile)
               ELSE UNCHANGED <<learner, fs, written>>
    /\ last' = NoCall
    /\ UNCHANGED wd
    /\ UNCHANGED <<valLoss, model_dir, cfg, epoch, it, min_eval,
                   time_since_last_improvement, best_learner_state_dict,
                   snap, logged, evals, stopped>>

\* ------------------------------------------------------ add_weight_decay
\* A parameter of net.named_parameters(): its dotted name as the sequence of
\* its components, the rank len(param.shape) and requires_grad.
MaxParams == 2
MaxRank == 2
ParamNames == {<<"bias">>, <<"w">>, <<"fc", "bias">>, <<"fc", "weight">>}
NamedParams == [name : ParamNames, rank : 0..MaxRank, requires_grad : BOOLEAN]
\* named_parameters() yields every name once.
Nets == {net \in UNION {[1..n -> NamedParams] : n \in 0..MaxParams} :
            \A i, j \in 1..Len(net) : net[i].name = net[j].name => i = j}
L2Values == {1, 2}
SkipLists == {{}} \cup {{n} : n \in ParamNames}

\* name.endswith(".bias"): the last component is "bias" and a dot precedes it.
endswith_bias_any(name) == name[Len(name)] = "bias"
endswith_bias(name) == Len(name) >= 2 /\ name[Len(name)] = "bias"

add_weight_decay(net, l2_value, skip_list) ==
    LET exempt(p) == \/ p.rank = 1
                     \/ endswith_bias(p.name)
                     \/ p.name \in skip_list
        in_no_decay(p) == p.requires_grad /\ exempt(p)
        in_decay(p) == p.requires_grad /\ ~exempt(p)
    IN  <<[params |-> SelectSeq(net, in_no_decay), weight_decay |-> 0],
          [params |-> SelectSeq(net, in_decay), weight_decay |-> l2_value]>>

\* The function on its own: the arguments of one call, then the call.
InitDecay ==
    /\ learner = [params |-> 0, training |-> TRUE]
    /\ valLoss = NoLandscape
    /\ model_dir = 0
    /\ n_epochs = Unbound
    /\ fs = <<>>
    /\ pc = "idle"
    /\ cfg = NoCfg
    /\ epoch = Unbound
    /\ it = 0
    /\ min_eval = inf
    /\ time_since_last_improvement = 0
    /\ best_learner_state_dict = 0
    /\ outcome = "none"
    /\ written = <<>>
    /\ snap = <<>>
    /\ logged = <<>>
    /\ evals = <<>>
    /\ stopped = FALSE
    /\ last = NoCall
    /\ \E net \in Nets, l2_value \in L2Values, skip_list \in SkipLists :
           wd = [called |-> FALSE, net |-> net, l2_value |-> l2_value,
                 skip_list |-> skip_list, groups |-> <<>>]

AddWeightDecay ==
    /\ ~wd.called
    /\ wd' = [wd EXCEPT !.called = TRUE,
                        !.groups = add_weight_decay(wd.net, wd.l2_value,
                                                    wd.skip_list)]
    /\ UNCHANGED <<learner, valLoss, model_dir, n_epochs, fs, pc, cfg, epoch, it,
                   min_eval, time_since_last_improvement,
                   best_learner_state_dict, outcome, written, snap, logged,
                   evals, stopped, last>>

NextDecay == AddWeightDecay

SpecDecay == InitDecay /\ [][NextDecay]_vars

\* --------------------------------------------------------------- predict
\* Exact rationals <<numerator, denominator>>, denominator > 0.
RatLeq(a, b) == a[1] * b[2] <= b[1] * a[2]

RECURSIVE Insert(_, _)
Insert(x, s) ==
    IF s = <<>> THEN <<x>>
    ELSE IF x <= Head(s) THEN <<x>> \o s
    ELSE <<Head(s)>> \o Insert(x, Tail(s))

RECURSIVE Sort(_)
Sort(s) == IF s = <<>> THEN <<>> ELSE Insert(Head(s), Sort(Tail(s)))

RECURSIVE SumSeq(_)
SumSeq(s) == IF s = <<>> THEN 0 ELSE Head(s) + SumSeq(Tail(s))

\* np.mean over the ensemble axis, for one output row.
Mean(col) == <<SumSeq(col), Len(col)>>

\* np.percentile(col, 100 * qn / qd), default (linear) interpolation: the
\* virtual index (n - 1) * qn / qd into the sorted values, interpolated
\* between its two neighbours.
PercentileUnsorted(col, qn, qd) ==
    LET pos == (Len(col) - 1) * qn
        lo == pos \div qd
        rem == pos % qd
    IN  IF rem = 0 THEN <<col[lo + 1] * qd, qd>>
        ELSE <<col[lo + 1] * qd + rem * (col[lo + 2] - col[lo + 1]), qd>>
Percentile(col, qn, qd) ==
    LET v == Sort(col)
        pos == (Len(col) - 1) * qn
        lo == pos \div qd
        rem == pos % qd
    IN  IF rem = 0 THEN <<v[lo + 1] * qd, qd>>
        ELSE <<v[lo + 1] * qd + rem * (v[lo + 2] - v[lo + 1]), qd>>

\* The quantiles alpha / 2 and 1 - alpha / 2 of predict, alpha = a[1] / a[2].
LowerQ(a) == <<a[1], 2 * a[2]>>
UpperQ(a) == <<2 * a[2] - a[1], 2 * a[2]>>

\* The checkpoint files a policy asks for, in the order it loads them.
\* np.arange(burn_in, n) is empty when burn_in >= n.
AvgFilesSkipOne(burn_in, n) == [j \in 1..(IF n > burn_in + 1 THEN n - burn_in - 1 ELSE 0) |-> EpochFile(burn_in + j)]
AvgFiles(burn_in, n) ==
    [j \in 1..(IF n > burn_in THEN n - burn_in ELSE 0) |-> EpochFile(burn_in + j - 1)]
FinalFileOffByOne(n) == EpochFile(n)
FinalFile(n) == EpochFile(n - 1)
IndexFileNext(i) == EpochFile(i + 1)
IndexFile(i) == EpochFile(i)

IsPolicyName(name) == name \in {"avg", "final", "earlystop"}

PolicyFiles(name, isint, index, burn_in, n) ==
    IF name = "avg" THEN AvgFiles(burn_in, n)
    ELSE IF name = "final" THEN <<FinalFile(n)>>
    ELSE IF name = "earlystop" THEN <<EarlystopFile>>
    ELSE IF isint THEN <<IndexFile(index)>>
    ELSE <<>>

\* Number of files at the front of `keys` that exist in `files`.
RECURSIVE Loadable(_, _)
Loadable(files, keys) ==
    IF keys = <<>> \/ ~exists(files, Head(keys)) THEN 0
    ELSE 1 + Loadable(files, Tail(keys))

\* What predict(T, model, burn_in, alpha) does in the current state.  The
\* model argument is a string (name) or an integer (isint, index).  T is
\* not a tensor, so self.device is read first.  An empty ensemble
\* (burn_in >= self.n_epochs) has no mean: the outcome is "nan".
PredictResult(name, isint, index, burn_in, alpha, T) ==
    LET call == [NoCall EXCEPT !.name = name, !.isint = isint, !.index = index,
                               !.burn_in = burn_in, !.alpha = alpha, !.T = T,
                               !.dir = model_dir, !.inflight = (pc # "idle")]
        needs_n == name \in {"avg", "final"}
        keys == PolicyFiles(name, isint, index, burn_in, n_epochs)
        files == fs[model_dir]
        k == Loadable(files, keys)
        models == [j \in 1..k |-> torch_load(files, keys[j])]
        rows == 1..Len(T)
        col(r) == [j \in 1..k |-> Forward(models[j], T[r])]
    IN  IF model_dir = 0 \/ (needs_n /\ n_epochs = Unbound)
        THEN [call EXCEPT !.outcome = "AttributeError"]
        ELSE IF ~IsPolicyName(name) /\ ~isint
        THEN [call EXCEPT !.outcome = "None"]
        ELSE IF k < Len(keys)
        THEN [call EXCEPT !.outcome = "NotFound", !.loaded = SubSeq(keys, 1, k)]
        ELSE IF k = 0
        THEN [call EXCEPT !.outcome = "nan"]
        ELSE IF name = "avg"
        THEN IF alpha = NoAlpha
             THEN [call EXCEPT !.outcome = "value", !.loaded = keys,
                               !.value = [r \in rows |-> Mean(col(r))]]
             ELSE [call EXCEPT !.outcome = "bands", !.loaded = keys,
                               !.value = [r \in rows |-> Mean(col(r))],
                               !.lower = [r \in rows |->
                                   Percentile(col(r), LowerQ(alpha)[1], LowerQ(alpha)[2])],
                               !.upper = [r \in rows |->
                                   Percentile(col(r), UpperQ(alpha)[1], UpperQ(alpha)[2])]]
        ELSE [call EXCEPT !.outcome = "value", !.loaded = keys,
                          !.value = [r \in rows |-> <<Forward(models[1], T[r]), 1>>]]

\* predict is called between fits, one call at a time; it changes nothing
\* but its return value, which the caller takes before its next call.
PredictCall(name, isint, index, burn_in, alpha, T) ==
    /\ last' = PredictResult(name, isint, index, burn_in, alpha, T)
    /\ UNCHANGED wd
    /\ UNCHANGED <<learner, valLoss, model_dir, n_epochs, fs, pc, cfg, epoch, it,
                   min_eval, time_since_last_improvement, best_learner_state_dict,
                   outcome, written, snap, logged, evals, stopped>>

Predict ==
    /\ pc = "idle"
    /\ last = NoCall
    /\ \E T \in TInputs :
         \/ \E burn_in \in 0..MaxBurn, alpha \in {NoAlpha} \cup Alphas :
                PredictCall("avg", FALSE, 0, burn_in, alpha, T)
         \/ \E name \in {"final", "earlystop", "best"} :
                PredictCall(name, FALSE, 0, 0, NoAlpha, T)
         \/ \E i \in 0..MaxEpochs : PredictCall("", TRUE, i, 0, NoAlpha, T)

TakeReturn ==
    /\ last # NoCall
    /\ last' = NoCall
    /\ UNCHANGED wd
    /\ UNCHANGED <<learner, valLoss, model_dir, n_epochs, fs, pc, cfg, epoch, it,
                   min_eval, time_since_last_improvement, best_learner_state_dict,
                   outcome, written, snap, logged, evals, stopped>>

\* ------------------------------------------- repeated fits, predict in flight
\* fit called again on the same estimator, up to MaxFits calls in all, and
\* predict called by another thread while a fit is in flight.  Each fit runs
\* one or two epochs of one mini-batch, with or without validation set.
MaxFits == 2
RefitConfigs == {c \in Configs : /\ c.n_epochs \in {1, 2}
                                 /\ c.nbatches = 1
                                 /\ c.earlystop_rounds = 0
                                 /\ ~c.logger}
RefitLandscapes == {Flat, Bowl(1)}

InitRefit ==
    /\ Init
    /\ ~learner.training

Refit ==
    /\ pc = "idle"
    /\ outcome \in {"none", "returned"}
    /\ Len(fs) < MaxFits
    /\ \E c \in RefitConfigs, warm_start \in BOOLEAN :
        \E w0 \in (IF warm_start THEN {learner.params} ELSE Params) :
          \E land \in (IF c.Xval THEN RefitLandscapes ELSE {NoLandscape}) :
            FitStart(c, w0, land)

\* predict between fits: every policy and an index.
PredictIdle ==
    /\ pc = "idle"
    /\ last = NoCall
    /\ \E T \in TInputs :
         \/ \E name \in {"avg", "final", "earlystop"} :
                PredictCall(name, FALSE, 0, 0, NoAlpha, T)
         \/ \E i \in 0..1 : PredictCall("", TRUE, i, 0, NoAlpha, T)

\* predict from another thread while fit runs: nothing guards the
\* attributes it reads (self.model_dir, self.n_epochs) or the files.
PredictInFlight ==
    /\ pc # "idle"
    /\ last = NoCall
    /\ \E T \in TInputs, name \in {"avg", "final"} :
           PredictCall(name, FALSE, 0, 0, NoAlpha, T)

NextRefit ==
    \/ Refit
    \/ TrainStep
    \/ Checkpoint
    \/ Validate
    \/ EndOfEpoch
    \/ Finalize
    \/ PredictIdle
    \/ PredictInFlight
    \/ TakeReturn

SpecRefit == InitRefit /\ [][NextRefit]_vars

Next ==
    \/ Fit
    \/ Predict
    \/ TakeReturn
    \/ TrainStep
    \/ TrainStepRaise
    \/ Checkpoint
    \/ Validate
    \/ ValidateRaise
    \/ EndOfEpoch
    \/ Finalize

Spec == Init /\ [][Next]_vars

\* ---------------------------------------------------------------- claims
\* What the properties below read off the state, stated without the
\* operators of the code above.
EpochName(i) == <<"epoch", i>>
RunFiles == IF model_dir = 0 THEN <<>> ELSE fs[model_dir]
EpochIndices == {i \in 0..(MaxEpochs + 1) : EpochName(i) \in DOMAIN RunFiles}
TimesWritten(key) == Cardinality({j \in 1..Len(written) : written[j] = key})
FitActive == outcome \in {"running", "returned"}
\* Epochs whose mini-batch loop has run to its end.
EpochsBatched == IF epoch = Unbound THEN 0
                 ELSE IF pc = "batch" THEN epoch ELSE epoch + 1
\* Epochs the fit executed, counted by the learner states recorded.
EpochsRun == Len(snap)
Called(name) == last.outcome # "none" /\ ~last.isint /\ last.name = name
Rows == 1..Len(last.T)

\* C1: while a fit runs and after it has returned, the epoch checkpoints in
\* the run directory are exactly epoch0..epoch(k-1), k the number of epochs
\* whose mini-batch phase has finished, each written exactly once and no
\* other file but "earlystop" present; after the return k is the number of
\* epochs run and is at least 1.
C1_OneCheckpointPerEpoch ==
    FitActive =>
        /\ EpochIndices = 0..(EpochsBatched - 1)
        /\ \A i \in 0..(MaxEpochs + 1) :
               TimesWritten(EpochName(i)) = (IF i < EpochsBatched THEN 1 ELSE 0)
        /\ DOMAIN RunFiles \subseteq
               {EpochName(i) : i \in 0..MaxEpochs} \cup {<<"earlystop">>}
        /\ outcome = "returned" => EpochsBatched = EpochsRun /\ EpochsRun >= 1

C1_Witness ==
    /\ outcome = "returned"
    /\ stopped
    /\ EpochsRun = 2
    /\ cfg.n_epochs = 3
    /\ EpochIndices = {0, 1}

\* The smallest validation loss observed by the fit.
MinEval == CHOOSE v \in {evals[j] : j \in 1..Len(evals)} :
               \A j \in 1..Len(evals) : v <= evals[j]

\* The "earlystop" file exists and holds the parameters of an epoch
\* checkpoint whose validation loss is the minimum observed.
EarlystopIsBest ==
    /\ <<"earlystop">> \in DOMAIN RunFiles
    /\ \E i \in 1..Len(evals) :
           /\ evals[i] = MinEval
           /\ RunFiles[EpochName(i - 1)].params = RunFiles[<<"earlystop">>].params

RECURSIVE BestUpTo(_, _)
BestUpTo(s, j) ==
    IF j = 0 THEN inf
    ELSE LET b == BestUpTo(s, j - 1) IN IF s[j] < b THEN s[j] ELSE b
\* The last epoch (1-based) whose loss was strictly below all before it.
LastImproved(s) ==
    LET imp == {j \in 1..Len(s) : s[j] < BestUpTo(s, j - 1)}
    IN  IF imp = {} THEN 0 ELSE CHOOSE j \in imp : \A k \in imp : k <= j
\* Consecutive non-improving epochs at the end of s.
NonImproving(s) == Len(s) - LastImproved(s)

\* C3: with a validation set, the epoch loop is left by early stopping
\* exactly when the number of consecutive non-improving epochs reaches
\* earlystop_rounds + 1: never while it is <= earlystop_rounds, and it
\* never grows past earlystop_rounds + 1.
C3_EarlyStopExactlyAtPatience ==
    (FitActive /\ cfg.Xval) =>
        /\ NonImproving(evals) <= cfg.earlystop_rounds + 1
        /\ stopped <=> (NonImproving(evals) = cfg.earlystop_rounds + 1)
        /\ stopped => Len(evals) = LastImproved(evals) + cfg.earlystop_rounds + 1

C3_Witness ==
    /\ stopped
    /\ cfg.earlystop_rounds = 1
    /\ evals = <<0, 1, 0>>

\* C4: with a logger configured, a fit that returns has called it once for
\* each epoch run, in increasing order, the early-stop epoch included.
C4_LoggerOncePerEpoch ==
    (outcome = "returned" /\ cfg.logger) =>
        logged = [j \in 1..EpochsRun |-> j - 1]

\* C5: after a fit without a validation set the run directory never holds
\* an "earlystop" file, and predict(model='earlystop') ends NotFound.
C5_NoEarlystopWithoutValidation ==
    (model_dir # 0 /\ ~cfg.Xval) =>
        /\ <<"earlystop">> \notin DOMAIN RunFiles
        /\ Called("earlystop") => last.outcome = "NotFound"

C5_Witness ==
    /\ outcome = "returned"
    /\ ~cfg.Xval
    /\ EpochsRun = 2
    /\ Called("earlystop")
    /\ last.outcome = "NotFound"

\* C6: predict with a model argument that is no policy name and no integer
\* ends in an error and returns nothing.
C6_InvalidPolicyFails ==
    Called("best") => last.outcome \in {"AttributeError", "NotFound"}

\* C7 as stated: the bands of predict('avg', alpha) enclose the mean,
\* lower <= mean <= upper in every row.
C7_MeanWithinBands ==
    last.outcome = "bands" =>
        \A r \in Rows : /\ RatLeq(last.lower[r], last.value[r])
                        /\ RatLeq(last.value[r], last.upper[r])

\* C7 as amended: the bands of predict('avg', alpha) are ordered,
\* lower <= upper in every row, for every alpha tried and every ensemble.
C7_BandsOrdered ==
    last.outcome = "bands" =>
        \A r \in Rows : RatLeq(last.lower[r], last.upper[r])

C7_Witness ==
    /\ last.outcome = "bands"
    /\ Len(last.loaded) = 3
    /\ \E r \in Rows : ~RatLeq(last.upper[r], last.lower[r])

\* Sum over epochs b+1..n (1-based) of the recorded learners' output on x.
RECURSIVE SnapSum(_, _, _)
SnapSum(b, n, x) ==
    IF n <= b THEN 0 ELSE snap[n].params * x + SnapSum(b, n - 1, x)

\* C8: after a fit that ran N epochs, predict('avg', burn_in=b) loads from
\* the current run directory exactly the checkpoints b..N-1, each once and
\* in order, and for b < N returns in each row the mean of the outputs of
\* the learners saved at those epochs.
C8_AvgLoadsBurnInToEnd ==
    (outcome = "returned" /\ Called("avg")) =>
        LET N == EpochsRun
            b == last.burn_in
        IN  /\ last.dir = model_dir
            /\ last.loaded = [j \in 1..(IF N > b THEN N - b ELSE 0) |->
                                 EpochName(b + j - 1)]
            /\ N > b =>
                 /\ last.outcome \in {"value", "bands"}
                 /\ \A r \in Rows :
                        last.value[r] = <<SnapSum(b, N, last.T[r]), N - b>>

C8_Witness ==
    /\ outcome = "returned"
    /\ Called("avg")
    /\ last.burn_in = 1
    /\ last.loaded = <<EpochName(1), EpochName(2)>>
    /\ snap[1].params # snap[2].params
    /\ last.outcome = "value"

\* C9: after fit returns, self.n_epochs is the number of epochs executed
\* (n_epochs of the call without early stop, the early-stop epoch index + 1
\* with it), the checkpoint of the last of them exists, and
\* predict('final') returns the output of the learner saved at that epoch.
C9_FinalIsLastCompletedEpoch ==
    outcome = "returned" =>
        /\ n_epochs = EpochsRun
        /\ ~stopped => n_epochs = cfg.n_epochs
        /\ stopped => n_epochs = Len(evals)
        /\ EpochName(n_epochs - 1) \in DOMAIN RunFiles
        /\ Called("final") =>
             /\ last.outcome = "value"
             /\ last.loaded = <<EpochName(EpochsRun - 1)>>
             /\ \A r \in Rows :
                    last.value[r] = <<snap[EpochsRun].params * last.T[r], 1>>

C9_Witness ==
    /\ outcome = "returned"
    /\ stopped
    /\ EpochsRun = 2
    /\ Called("final")
    /\ last.outcome = "value"
    /\ snap[1].params # snap[2].params

\* C10: after fit returns, predict(model=i) for 0 <= i < epochs run returns
\* the output of the learner as it was saved at the end of epoch i, whatever
\* later epochs and the restore of the best snapshot did to the live learner.
C10_IndexRoundTrip ==
    (outcome = "returned" /\ last.outcome # "none" /\ last.isint
        /\ last.index < EpochsRun) =>
        /\ last.outcome = "value"
        /\ last.loaded = <<EpochName(last.index)>>
        /\ \A r \in Rows :
               last.value[r] = <<snap[last.index + 1].params * last.T[r], 1>>

C10_Witness ==
    /\ outcome = "returned"
    /\ cfg.Xval
    /\ EpochsRun = 3
    /\ last.outcome = "value"
    /\ last.isint
    /\ last.index = 0
    /\ snap[1].params # snap[2].params
    /\ snap[1].params # snap[3].params
    /\ snap[1].params # learner.params

\* Equality of two rows of exact rationals.
SameRows(a, b) ==
    /\ Len(a) = Len(b)
    /\ \A r \in 1..Len(a) : a[r][1] * b[r][2] = b[r][1] * a[r][2]

\* C11: after a fit that ran exactly one epoch, predict('avg', burn_in=0)
\* returns a value, and it is the value predict('final') returns for the
\* same input.
C11_AvgOfOneIsFinal ==
    (outcome = "returned" /\ EpochsRun = 1 /\ Called("avg")
        /\ last.burn_in = 0 /\ last.alpha = NoAlpha) =>
        LET final == PredictResult("final", FALSE, 0, 0, NoAlpha, last.T)
        IN  /\ last.outcome = "value"
            /\ final.outcome = "value"
            /\ SameRows(last.value, final.value)
            /\ last.loaded = final.loaded

C11_Witness ==
    /\ outcome = "returned"
    /\ EpochsRun = 1
    /\ Called("avg")
    /\ last.burn_in = 0
    /\ last.alpha = NoAlpha
    /\ last.outcome = "value"
    /\ snap[1].params = 2

\* C12: in each epoch the checkpoint is written after the last mini-batch
\* and before the validation, with no optimizer step in between: when the
\* validation is about to run the checkpoint of the epoch exists and holds
\* the live learner, every validation loss recorded is the loss of the
\* parameters stored in that epoch's checkpoint, and when the loop is left
\* by early stopping the checkpoint of that epoch is there.
C12_SaveThenValidate ==
    (FitActive /\ cfg.Xval) =>
        /\ pc = "validate" =>
             /\ it = cfg.nbatches
             /\ EpochName(epoch) \in DOMAIN RunFiles
             /\ RunFiles[EpochName(epoch)] = learner
             /\ Len(evals) = epoch
        /\ \A j \in 1..Len(evals) :
             /\ EpochName(j - 1) \in DOMAIN RunFiles
             /\ evals[j] = valLoss[RunFiles[EpochName(j - 1)].params]
             /\ RunFiles[EpochName(j - 1)] = snap[j]
        /\ stopped => EpochName(epoch) \in DOMAIN RunFiles /\ Len(evals) = epoch + 1

C12_Witness ==
    /\ pc = "final"
    /\ stopped
    /\ cfg.nbatches = 1
    /\ evals = <<0, 1, 1>>
    /\ snap[2].params # snap[3].params

\* The first epoch (1-based) whose validation loss is the minimum observed.
EarliestMin == CHOOSE j \in 1..Len(evals) :
                   /\ evals[j] = MinEval
                   /\ \A k \in 1..(j - 1) : evals[k] # MinEval

\* One validation that ends in the loop (no exception): on a loss strictly
\* below the best so far the counter is reset and the loss and the learner's
\* parameters are retained; on a tie or a worse loss the counter grows by
\* one and the retained loss and snapshot stay as they are.
StrictUpdateStep ==
    (pc = "validate" /\ outcome' = "running") =>
        LET loss == valLoss[learner.params] IN
        IF loss < min_eval
        THEN /\ time_since_last_improvement' = 0
             /\ min_eval' = loss
             /\ best_learner_state_dict' = learner.params
        ELSE /\ time_since_last_improvement' = time_since_last_improvement + 1
             /\ min_eval' = min_eval
             /\ best_learner_state_dict' = best_learner_state_dict

\* Outside the validation of a running fit nothing touches the snapshot.
SnapshotKeptStep ==
    (pc # "validate" /\ outcome = "running") =>
        best_learner_state_dict' = best_learner_state_dict

ObservedInEvalMode ==
    /\ \A key \in DOMAIN RunFiles : ~RunFiles[key].training
    /\ \A j \in 1..Len(snap) : ~snap[j].training
    /\ (pc \in {"validate", "logger"} \/ outcome = "returned")
           => ~learner.training
    /\ (pc = "final" /\ epoch # Unbound) => ~learner.training
    /\ (pc = "batch" /\ it > 0) => ~learner.training

\* A step of a running fit that is not a mini-batch step leaves the mode of
\* the learner as it is; a mini-batch step that completes ends in
\* evaluation mode.
ModeStep ==
    (outcome = "running" /\ outcome' # "raised") =>
        IF pc = "batch" /\ it' = it + 1
        THEN ~learner'.training
        ELSE learner'.training = learner.training

CheckpointsKeptStep ==
    (model_dir # 0 /\ model_dir' = model_dir) =>
        \A key \in DOMAIN fs[model_dir] :
            /\ key \in DOMAIN fs'[model_dir]
            /\ fs'[model_dir][key] = fs[model_dir][key]

\* C15: no file of the run directory is changed or removed once written and
\* no key is written twice within a fit, so every epoch checkpoint holds the
\* learner as it was when the epoch was saved, finalization included; after
\* a fit with validation set has returned, the learner in memory has the
\* parameters of the retained best snapshot and "earlystop" holds it.
C15_CheckpointsImmutable ==
    /\ [][CheckpointsKeptStep]_vars
    /\ [](FitActive =>
            /\ \A j \in 1..Len(written) : TimesWritten(written[j]) = 1
            /\ \A j \in 1..Len(snap) :
                   /\ EpochName(j - 1) \in DOMAIN RunFiles
                   /\ RunFiles[EpochName(j - 1)] = snap[j]
            /\ (outcome = "returned" /\ cfg.Xval) =>
                   /\ learner.params = best_learner_state_dict
                   /\ <<"earlystop">> \in DOMAIN RunFiles
                   /\ RunFiles[<<"earlystop">>] = learner)

C15_Witness ==
    /\ outcome = "returned"
    /\ cfg.Xval
    /\ Len(snap) = 3
    /\ evals = <<1, 0, 1>>
    /\ snap[3].params # snap[2].params
    /\ learner.params = snap[2].params
    /\ RunFiles[EpochName(2)] = snap[3]

\* The step on which an exception leaves fit writes no file and records no
\* epoch count, and nothing of the fit runs after it: no retry, no further
\* epoch, no finalization.
RaiseStep ==
    /\ (outcome = "running" /\ outcome' = "raised") =>
           /\ pc' = "idle"
           /\ fs' = fs
           /\ n_epochs' = n_epochs
    /\ outcome = "raised" =>
           /\ outcome' = "raised"
           /\ pc' = "idle"
           /\ <<fs, n_epochs, model_dir, learner, epoch, it, written>>' =
                  <<fs, n_epochs, model_dir, learner, epoch, it, written>>

\* C16: after an exception in the mini-batch or validation computation of
\* epoch k the fit is over; the run directory holds the checkpoints of
\* epochs 0..k-1 when a mini-batch failed and of epochs 0..k when the
\* validation failed, each as saved, and no "earlystop"; no epoch count was
\* recorded.
C16_ExceptionLeavesCheckpoints ==
    /\ [][RaiseStep]_vars
    /\ []((outcome = "raised" /\ epoch # Unbound) =>
            /\ pc = "idle"
            /\ EpochIndices = (IF it < cfg.nbatches THEN 0..(epoch - 1)
                                                    ELSE 0..epoch)
            /\ DOMAIN RunFiles = {EpochName(i) : i \in EpochIndices}
            /\ \A i \in EpochIndices : RunFiles[EpochName(i)] = snap[i + 1]
            /\ Len(written) = Cardinality(EpochIndices)
            /\ n_epochs = Unbound)

C16_Witness ==
    /\ outcome = "raised"
    /\ epoch = 1
    /\ cfg.nbatches = 1
    /\ it = 1
    /\ EpochIndices = {0, 1}
    /\ <<"earlystop">> \notin DOMAIN RunFiles
    /\ n_epochs = Unbound

\* C20: a fit with n_epochs = 0 never returns: no epoch runs, no file is
\* written in its run directory, nothing is validated or logged, and the
\* finalization raises, leaving no epoch count recorded, with or without a
\* validation set.
C20_ZeroEpochsFails ==
    /\ [][(pc = "final" /\ epoch = Unbound) =>
              (outcome' = "raised" /\ pc' = "idle"
               /\ fs' = fs /\ n_epochs' = n_epochs)]_vars
    /\ []((outcome # "none" /\ cfg.n_epochs = 0) =>
            /\ outcome \in {"running", "raised"}
            /\ outcome = "running" => pc = "final"
            /\ epoch = Unbound
            /\ DOMAIN RunFiles = {}
            /\ written = <<>> /\ snap = <<>> /\ evals = <<>> /\ logged = <<>>
            /\ n_epochs = Unbound)

C20_Witness ==
    /\ outcome = "raised"
    /\ cfg.n_epochs = 0
    /\ cfg.Xval
    /\ model_dir # 0
    /\ DOMAIN RunFiles = {}
    /\ n_epochs = Unbound

\* How often the parameter p occurs in the list ps.
Occurrences(p, ps) == Cardinality({j \in 1..Len(ps) : ps[j] = p})

\* C17: add_weight_decay returns the no-decay group with coefficient 0 and
\* the decay group with coefficient l2_value; every trainable parameter of
\* the net is in exactly one of them, in the no-decay group iff it is of
\* rank 1, or its name ends in ".bias", or its name is in skip_list; a frozen
\* parameter is in neither, the groups hold nothing else, and the net is
\* what it was before the call.
C17_WeightDecayPartition ==
    /\ [][wd'.net = wd.net /\ wd'.l2_value = wd.l2_value
              /\ wd'.skip_list = wd.skip_list]_vars
    /\ [](wd.called =>
            LET no_decay == wd.groups[1].params
                decay == wd.groups[2].params
            IN  /\ Len(wd.groups) = 2
                /\ wd.groups[1].weight_decay = 0
                /\ wd.groups[2].weight_decay = wd.l2_value
                /\ \A j \in 1..Len(no_decay) :
                       \E i \in 1..Len(wd.net) : wd.net[i] = no_decay[j]
                /\ \A j \in 1..Len(decay) :
                       \E i \in 1..Len(wd.net) : wd.net[i] = decay[j]
                /\ \A i \in 1..Len(wd.net) :
                       LET p == wd.net[i]
                           bias_suffix == /\ Len(p.name) >= 2
                                          /\ p.name[Len(p.name)] = "bias"
                           exempt == \/ p.rank = 1
                                     \/ bias_suffix
                                     \/ p.name \in wd.skip_list
                       IN  /\ Occurrences(p, no_decay) =
                                  (IF p.requires_grad /\ exempt THEN 1 ELSE 0)
                           /\ Occurrences(p, decay) =
                                  (IF p.requires_grad /\ ~exempt THEN 1 ELSE 0))

C17_Witness ==
    /\ wd.called
    /\ wd.l2_value = 2
    /\ wd.skip_list = {<<"w">>}
    /\ wd.net = <<[name |-> <<"bias">>, rank |-> 2, requires_grad |-> TRUE],
                  [name |-> <<"w">>, rank |-> 2, requires_grad |-> TRUE]>>
    /\ wd.groups[1].params = <<wd.net[2]>>
    /\ wd.groups[2].params = <<wd.net[1]>>

\* C18: whenever a fit has returned, however many fits came before it,
\* self.model_dir is the directory that fit created and self.n_epochs the
\* number of epochs it ran, the directory holds exactly the files that fit
\* wrote, and a predict call reads that directory and loads only files
\* written by that fit: "final" is the last epoch it ran, and "earlystop"
\* is not found when that fit had no validation set, whatever an earlier
\* fit left behind.
C18_PredictReadsLatestFit ==
    outcome = "returned" =>
        /\ model_dir = Len(fs)
        /\ n_epochs = EpochsRun
        /\ DOMAIN RunFiles = {written[k] : k \in 1..Len(written)}
        /\ last.outcome # "none" =>
               /\ ~last.inflight
               /\ last.dir = Len(fs)
               /\ \A j \in 1..Len(last.loaded) :
                      \E k \in 1..Len(written) : written[k] = last.loaded[j]
        /\ Called("final") =>
               /\ last.outcome = "value"
               /\ last.loaded = <<EpochName(EpochsRun - 1)>>
               /\ \A r \in Rows :
                      last.value[r] = <<snap[EpochsRun].params * last.T[r], 1>>
        /\ Called("earlystop") =>
               IF cfg.Xval
               THEN /\ last.outcome = "value"
                    /\ \A r \in Rows :
                           last.value[r] = <<learner.params * last.T[r], 1>>
               ELSE last.outcome = "NotFound"

C18_Witness ==
    /\ outcome = "returned"
    /\ Len(fs) = 2
    /\ <<"earlystop">> \in DOMAIN fs[1]
    /\ EpochName(1) \in DOMAIN fs[1]
    /\ ~cfg.Xval
    /\ n_epochs = 1
    /\ Called("earlystop")
    /\ last.outcome = "NotFound"

\* From the call of fit to its return self.n_epochs keeps the value it had,
\* while self.model_dir is switched to a new, empty directory by the call.
UnguardedFitStep ==
    /\ (outcome # "running" /\ outcome' = "running") =>
           /\ model_dir' # model_dir
           /\ fs'[model_dir'] = <<>>
           /\ n_epochs' = n_epochs
    /\ (outcome = "running" /\ outcome' = "running") =>
           /\ model_dir' = model_dir
           /\ n_epochs' = n_epochs

\* C19: the run directory is switched when fit starts and the epoch count is
\* written only when it ends, so a predict in flight with a fit may ask for
\* an epoch file the new directory does not hold (the witness); a
\* predict('avg') or predict('final') made after the fit has returned finds
\* every file it asks for.
C19_PredictAfterFitFindsFiles ==
    /\ [][UnguardedFitStep]_vars
    /\ []((outcome = "returned" /\ (Called("avg") \/ Called("final"))) =>
            /\ ~last.inflight
            /\ last.outcome = "value"
            /\ Len(last.loaded) >= 1
            /\ \A j \in 1..Len(last.loaded) : last.loaded[j] \in DOMAIN RunFiles)
    /\ []((last.inflight /\ last.outcome = "NotFound") =>
            /\ outcome = "running"
            /\ last.dir = model_dir
            /\ n_epochs # Unbound
            /\ EpochName(n_epochs - 1) \notin DOMAIN RunFiles)

C19_Witness ==
    /\ outcome = "running"
    /\ last.inflight
    /\ Called("final")
    /\ last.outcome = "NotFound"
    /\ last.dir = 2
    /\ n_epochs = 2
    /\ DOMAIN RunFiles = {EpochName(0)}
    /\ EpochName(1) \in DOMAIN fs[1]
====
